---- MODULE Spec2Model ----
(***************************************************************************)
(* Model of the workflow orchestrator of examples-medium/                  *)
(* multi_tool_orchestrator.py: the ToolOrchestrator registry, the          *)
(* execute_workflow coroutine (placeholder resolution, sequential tool     *)
(* invocation, result recording) and the create_custom_workflow handler.   *)
(*                                                                         *)
(* A Python string is modelled as a sequence of chunks: each brace is a    *)
(* chunk of its own and every maximal brace-free run of characters is one  *)
(* chunk ("{query}" is <<"{", "query", "}">>), so startswith, endswith and *)
(* value[1:-1] are computed on the sequence.  A JSON value is a record     *)
(* [kind, s, n]: kind "str" carries the chunks in s; the other kinds       *)
(* ("int", "bool", "list") are non-strings.                                *)
(*                                                                         *)
(* asyncio runs a coroutine without interruption between two awaits, so    *)
(* one action covers the code from one suspension point to the next.       *)
(***************************************************************************)
EXTENDS Integers, Sequences, FiniteSets, TLC

VARIABLES
    workflows,  \* orchestrator.workflows: workflow name -> list of steps
    pc,         \* per request: "idle", "awaiting", "returned", "failed"
    wname,      \* per request: the workflow_name argument
    context,    \* per request: the context argument
    workflow,   \* per request: the local `workflow` (the list being iterated)
    results,    \* per request: the local `results` dict
    calls,      \* per request: the (tool_name, params) pairs passed to execute_tool
    rets,       \* per request: the outcomes execute_tool produced, in order
    error,      \* per request: the exception execute_workflow raised
    response    \* per request: what the caller of execute_workflow received

vars == <<workflows, pc, wname, context, workflow, results, calls, rets, error, response>>

---------------------------------------------------------------------------
(* Values and strings *)

VStr(chunks) == [kind |-> "str", s |-> chunks, n |-> 0]
VInt(i) == [kind |-> "int", s |-> <<>>, n |-> i]
VBool(b) == [kind |-> "bool", s |-> <<>>, n |-> IF b THEN 1 ELSE 0]
VList(chunks) == [kind |-> "list", s |-> chunks, n |-> 0]

EmptyMap == [k \in {} |-> VInt(0)]

Put(f, k, v) == [x \in (DOMAIN f) \cup {k} |-> IF x = k THEN v ELSE f[x]]

StartsWithBrace(s) == Len(s) > 0 /\ s[1] = "{"

EndsWithBrace(s) == Len(s) > 0 /\ s[Len(s)] = "}"

IsPlaceholderMutPrefixOnly(value) ==
    /\ value.kind = "str"
    /\ StartsWithBrace(value.s)

IsPlaceholderMutSingleIdentifier(value) ==
    /\ value.kind = "str"
    /\ Len(value.s) = 3
    /\ StartsWithBrace(value.s)
    /\ EndsWithBrace(value.s)
    /\ value.s[2] \notin {"{", "}", " and "}

\* line 45: isinstance(value, str) and value.startswith("{") and value.endswith("}")
IsPlaceholder(value) ==
    /\ value.kind = "str"
    /\ StartsWithBrace(value.s)
    /\ EndsWithBrace(value.s)

\* line 46: value[1:-1]
ParamName(value) == SubSeq(value.s, 2, Len(value.s) - 1)

\* lines 47-50: context first, then results
LookupMutResultsFirst(param_name, ctx, res) ==
    IF param_name \in DOMAIN res THEN res[param_name] ELSE ctx[param_name]

LookupMutRecursive(param_name, ctx, res) ==
    LET once == IF param_name \in DOMAIN ctx THEN ctx[param_name] ELSE res[param_name]
        again == SubSeq(once.s, 2, Len(once.s) - 1)
    IN  IF /\ once.kind = "str"
           /\ StartsWithBrace(once.s)
           /\ EndsWithBrace(once.s)
           /\ again \in (DOMAIN ctx) \cup (DOMAIN res)
        THEN IF again \in DOMAIN ctx THEN ctx[again] ELSE res[again]
        ELSE once

Lookup(param_name, ctx, res) ==
    IF param_name \in DOMAIN ctx THEN ctx[param_name] ELSE res[param_name]

ResolvableMutContextOnly(param_name, ctx, res) ==
    param_name \in DOMAIN ctx

\* lines 47, 49: the placeholder is resolvable
Resolvable(param_name, ctx, res) ==
    param_name \in (DOMAIN ctx) \cup (DOMAIN res)

VNone == [kind |-> "none", s |-> <<>>, n |-> 0]

ResolveParamsMutNull(step_params, ctx, res) ==
    [key \in DOMAIN step_params |->
        IF IsPlaceholder(step_params[key])
        THEN IF Resolvable(ParamName(step_params[key]), ctx, res)
             THEN Lookup(ParamName(step_params[key]), ctx, res)
             ELSE VNone
        ELSE step_params[key]]

\* lines 43-52: the params dict built for one step
ResolveParams(step_params, ctx, res) ==
    LET kept == {key \in DOMAIN step_params :
                    IsPlaceholder(step_params[key])
                        => Resolvable(ParamName(step_params[key]), ctx, res)}
    IN  [key \in kept |->
            IF IsPlaceholder(step_params[key])
            THEN Lookup(ParamName(step_params[key]), ctx, res)
            ELSE step_params[key]]

---------------------------------------------------------------------------
(* Steps and the built-in registry *)

Step(tool, params) ==
    [hasTool |-> TRUE, tool |-> tool, hasParams |-> TRUE, params |-> params]

\* a step dict without a "params" key, and one without a "tool" key
StepNoParams(tool) ==
    [hasTool |-> TRUE, tool |-> tool, hasParams |-> FALSE, params |-> EmptyMap]

StepNoTool(params) ==
    [hasTool |-> FALSE, tool |-> <<>>, hasParams |-> TRUE, params |-> params]

BuiltinWorkflowsMutThreaded ==
    [name \in {"morning_briefing", "deploy_checklist", "research_assistant"} |->
        CASE name = "morning_briefing" ->
                << Step(<<"get_calendar_events">>, [k \in {"days"} |-> VInt(1)]),
                   Step(<<"check_github_notifications">>, EmptyMap),
                   Step(<<"get_weather">>, EmptyMap),
                   Step(<<"check_ci_status">>,
                        [k \in {"repos"} |-> VList(<<"main-project">>)]) >>
          [] name = "deploy_checklist" ->
                << Step(<<"run_tests">>, [k \in {"suite"} |-> VStr(<<"all">>)]),
                   Step(<<"check_code_coverage">>, [k \in {"threshold"} |-> VInt(80)]),
                   Step(<<"lint_code">>, EmptyMap),
                   Step(<<"check_dependencies">>, [k \in {"security"} |-> VBool(TRUE)]),
                   Step(<<"generate_changelog">>, EmptyMap) >>
          [] name = "research_assistant" ->
                << Step(<<"search_arxiv">>,
                        [k \in {"query", "limit"} |->
                            IF k = "query" THEN VStr(<<"{", "query", "}">>) ELSE VInt(5)]),
                   Step(<<"summarize_papers">>,
                        [k \in {"papers"} |-> VStr(<<"{", "search_arxiv", "}">>)]),
                   Step(<<"find_implementations">>,
                        [k \in {"papers"} |-> VStr(<<"{", "search_arxiv", "}">>)]),
                   Step(<<"create_reading_list">>,
                        [k \in {"summaries"} |-> VStr(<<"{", "summarize_papers", "}">>)]) >>]

\* lines 12-32: self.workflows as __init__ builds it
BuiltinWorkflows ==
    [name \in {"morning_briefing", "deploy_checklist", "research_assistant"} |->
        CASE name = "morning_briefing" ->
                << Step(<<"get_calendar_events">>, [k \in {"days"} |-> VInt(1)]),
                   Step(<<"check_github_notifications">>, EmptyMap),
                   Step(<<"get_weather">>, EmptyMap),
                   Step(<<"check_ci_status">>,
                        [k \in {"repos"} |-> VList(<<"main-project">>)]) >>
          [] name = "deploy_checklist" ->
                << Step(<<"run_tests">>, [k \in {"suite"} |-> VStr(<<"all">>)]),
                   Step(<<"check_code_coverage">>, [k \in {"threshold"} |-> VInt(80)]),
                   Step(<<"lint_code">>, EmptyMap),
                   Step(<<"check_dependencies">>, [k \in {"security"} |-> VBool(TRUE)]),
                   Step(<<"generate_changelog">>, EmptyMap) >>
          [] name = "research_assistant" ->
                << Step(<<"search_arxiv">>,
                        [k \in {"query", "limit"} |->
                            IF k = "query" THEN VStr(<<"{", "query", "}">>) ELSE VInt(5)]),
                   Step(<<"summarize_papers">>,
                        [k \in {"papers"} |-> VStr(<<"{", "arxiv_results", "}">>)]),
                   Step(<<"find_implementations">>,
                        [k \in {"papers"} |-> VStr(<<"{", "arxiv_results", "}">>)]),
                   Step(<<"create_reading_list">>,
                        [k \in {"summaries"} |-> VStr(<<"{", "summaries", "}">>)]) >>]

---------------------------------------------------------------------------
(* Exceptions and responses *)

NoError == [type |-> "none", text |-> <<>>]

\* line 36: ValueError(f"Unknown workflow: {workflow_name}")
UnknownWorkflow(workflow_name) ==
    [type |-> "ValueError", text |-> <<"Unknown workflow: ", workflow_name>>]

\* step["params"] (line 44) or step["tool"] (line 55) on a dict without that key
KeyError(key) == [type |-> "KeyError", text |-> <<key>>]

NoResponse == [kind |-> "none", result |-> EmptyMap, error |-> NoError]

Returned(res) == [kind |-> "result", result |-> res, error |-> NoError]

Raised(err) == [kind |-> "error", result |-> EmptyMap, error |-> err]

---------------------------------------------------------------------------
(* Bounds and input sets *)

MaxSteps == 2

Procs == {1, 2}

SeqProcs == {1}

ToolNames == {<<"A">>, <<"B">>}

\* the params dict of the custom steps: a placeholder naming tool A (which is
\* also the context key), a placeholder naming tool B, a string that opens a
\* brace without closing it, a non-string, the string "{}" and the string
\* "{A} and {B}"
CustomParams ==
    [k \in {"x", "u", "y", "n", "e", "m"} |->
        CASE k = "x" -> VStr(<<"{", "A", "}">>)
          [] k = "u" -> VStr(<<"{", "B", "}">>)
          [] k = "y" -> VStr(<<"{", "A">>)
          [] k = "n" -> VInt(1)
          [] k = "e" -> VStr(<<"{", "}">>)
          [] k = "m" -> VStr(<<"{", "A", "}", " and ", "{", "B", "}">>)]

Steps == {Step(t, CustomParams) : t \in ToolNames}

\* step lists the schema of create_custom_workflow admits (neither "tool" nor
\* "params" is required of a step) although execute_workflow cannot run them
MalformedStepLists ==
    { <<StepNoParams(<<"A">>)>>,
      <<Step(<<"A">>, CustomParams), StepNoTool(CustomParams)>> }

RECURSIVE SeqsUpTo(_, _)
SeqsUpTo(S, n) ==
    IF n = 0 THEN {<<>>}
    ELSE LET shorter == SeqsUpTo(S, n - 1)
         IN  shorter \cup {Append(w, x) : w \in {v \in shorter : Len(v) = n - 1}, x \in S}

\* the step lists of length n that invoke tool A in every step but the last
RepeatedToolLists(n) ==
    {wf \in SeqsUpTo(Steps, n) :
        Len(wf) = n /\ \A i \in 1..(n - 1) : wf[i].tool = <<"A">>}

\* what create_custom_workflow is given: every list of up to MaxSteps steps,
\* the lists one step longer that repeat a tool, and the malformed lists
StepLists ==
    SeqsUpTo(Steps, MaxSteps) \cup RepeatedToolLists(MaxSteps + 1) \cup MalformedStepLists

RegisterNames == {"custom"}

RunNames == {"custom", "research_assistant", "nightly"}

ContextKeys == {<<"A">>}

ContextValues == {VInt(7), VStr(<<"{", "B", "}">>)}

Contexts == UNION {[K -> ContextValues] : K \in SUBSET ContextKeys}

ReturnValues == {VInt(42), VStr(<<"{", "A", "}">>)}

ToolErrors == {[type |-> "ClientError", text |-> <<"connection refused">>]}

---------------------------------------------------------------------------
(* The state machine *)

Init ==
    /\ workflows = BuiltinWorkflows
    /\ pc = [p \in Procs |-> "idle"]
    /\ wname = [p \in Procs |-> ""]
    /\ context = [p \in Procs |-> EmptyMap]
    /\ workflow = [p \in Procs |-> <<>>]
    /\ results = [p \in Procs |-> EmptyMap]
    /\ calls = [p \in Procs |-> <<>>]
    /\ rets = [p \in Procs |-> <<>>]
    /\ error = [p \in Procs |-> NoError]
    /\ response = [p \in Procs |-> NoResponse]

\* line 35: the membership test that guards the run
KnownMutAlways(workflow_name, registry) == TRUE

Known(workflow_name, registry) == workflow_name \in DOMAIN registry

\* line 39: results = {}, a dict local to the invocation
FreshResultsMutKept(previous) == previous

FreshResults(previous) == EmptyMap

\* line 41: for step in workflow, the i-th step of the iteration
StepAtMutReversed(wf, i) == wf[Len(wf) + 1 - i]

StepAt(wf, i) == wf[i]

\* lines 50, 56: the results dict a run reads and writes is its own local
RunResultsMutShared(res, p) ==
    LET others == {q \in DOMAIN res : q # p}
        keys == UNION {DOMAIN res[q] : q \in DOMAIN res}
    IN  [k \in keys |->
            IF k \in DOMAIN res[p] THEN res[p][k]
            ELSE res[CHOOSE q \in others : k \in DOMAIN res[q]][k]]

RunResults(res, p) == res[p]

\* line 56: results[step["tool"]] = result
RecordMutKeepFirst(res, tool, value) ==
    IF tool \in DOMAIN res THEN res ELSE Put(res, tool, value)

Record(res, tool, value) == Put(res, tool, value)

\* lines 43-52: params is a new dict; the step dict of the list is only read
StepAfterResolveMutInPlace(step, params) == [step EXCEPT !.params = params]

StepAfterResolve(step, params) == step

\* lines 47-50 run before line 56: the results a step's placeholders see do
\* not yet hold an entry written for that step
VisibleResultsMutReserved(res, tool) == Put(res, tool, VNone)

VisibleResults(res, tool) == res

\* line 38: `workflow` is bound once; the loop iterates that list object
CurrentListMutReread(captured, registry, name) ==
    IF name \in DOMAIN registry THEN registry[name] ELSE captured

CurrentList(captured, registry, name) == captured

\* the registry after a run touched the list `old`, now `new`: the entry of
\* the run's name is that same list object unless it was replaced meanwhile
Aliased(registry, name, old, new) ==
    IF name \in DOMAIN registry /\ registry[name] = old
    THEN Put(registry, name, new)
    ELSE registry

\* lines 41-58 from the top of iteration i to the next await (or to the
\* return, or to the KeyError of a step dict that lacks a key)
Advance(p, wf, i, ctx, res) ==
    IF i > Len(wf)
    THEN /\ pc' = [pc EXCEPT ![p] = "returned"]
         /\ workflow' = [workflow EXCEPT ![p] = wf]
         /\ workflows' = workflows
         /\ calls' = IF i = 1 THEN [calls EXCEPT ![p] = <<>>] ELSE calls
         /\ error' = [error EXCEPT ![p] = NoError]
         /\ response' = [response EXCEPT ![p] = Returned(res)]
    ELSE LET step == StepAt(wf, i)
             failure == IF ~step.hasParams THEN KeyError("params")
                        ELSE IF ~step.hasTool THEN KeyError("tool")
                        ELSE NoError
         IN  IF failure # NoError
             THEN /\ pc' = [pc EXCEPT ![p] = "failed"]
                  /\ workflow' = [workflow EXCEPT ![p] = wf]
                  /\ workflows' = workflows
                  /\ calls' = IF i = 1 THEN [calls EXCEPT ![p] = <<>>] ELSE calls
                  /\ error' = [error EXCEPT ![p] = failure]
                  /\ response' = [response EXCEPT ![p] = Raised(failure)]
             ELSE LET call == [tool |-> step.tool,
                               params |-> ResolveParams(step.params, ctx,
                                                        VisibleResults(res, step.tool))]
                      after == IF StepAfterResolve(step, call.params) = step THEN wf
                               ELSE [wf EXCEPT ![i] = StepAfterResolve(step, call.params)]
                  IN  /\ pc' = [pc EXCEPT ![p] = "awaiting"]
                      /\ workflow' = [workflow EXCEPT ![p] = after]
                      /\ workflows' = Aliased(workflows, wname'[p], wf, after)
                      /\ calls' = [calls EXCEPT ![p] =
                                      IF i = 1 THEN <<call>> ELSE Append(@, call)]
                      /\ error' = [error EXCEPT ![p] = NoError]
                      /\ response' = [response EXCEPT ![p] = NoResponse]

\* handle_call_tool, name == "execute_workflow": the call of execute_workflow
\* up to its first await
ExecuteWorkflow(p, workflow_name, ctx) ==
    /\ pc[p] # "awaiting"
    /\ wname' = [wname EXCEPT ![p] = workflow_name]
    /\ context' = [context EXCEPT ![p] = ctx]
    /\ rets' = [rets EXCEPT ![p] = <<>>]
    /\ IF ~Known(workflow_name, workflows)
       THEN /\ pc' = [pc EXCEPT ![p] = "failed"]
            /\ error' = [error EXCEPT ![p] = UnknownWorkflow(workflow_name)]
            /\ response' = [response EXCEPT ![p] = Raised(UnknownWorkflow(workflow_name))]
            /\ workflow' = [workflow EXCEPT ![p] = <<>>]
            /\ workflows' = workflows
            /\ results' = [results EXCEPT ![p] = EmptyMap]
            /\ calls' = [calls EXCEPT ![p] = <<>>]
       ELSE LET wf == IF workflow_name \in DOMAIN workflows
                      THEN workflows[workflow_name] ELSE <<>>
                fresh == [results EXCEPT ![p] = FreshResults(results[p])]
            IN  /\ results' = fresh
                /\ Advance(p, wf, 1, ctx, RunResults(fresh, p))

\* lines 55-56 then 41: the next iteration starts after the await returned and
\* line 56 stored the result, so it resolves against the updated dict
ResolveAgainstMutBeforeRecord(before, after) == before

ResolveAgainst(before, after) == after

\* line 55-56: execute_tool returned `value`; the loop records it and goes on
ToolReturns(p, value) ==
    /\ pc[p] = "awaiting"
    /\ UNCHANGED <<wname, context>>
    /\ LET tool == calls[p][Len(calls[p])].tool
           res == Record(RunResults(results, p), tool, value)
       IN  /\ results' = [results EXCEPT ![p] = res]
           /\ rets' = [rets EXCEPT ![p] =
                          Append(@, [ok |-> TRUE, value |-> value, err |-> NoError])]
           /\ Advance(p, CurrentList(workflow[p], workflows, wname[p]),
                      Len(calls[p]) + 1, context[p],
                      ResolveAgainst(RunResults(results, p), res))

ToolRaisesMutSwallowed(p, err) ==
    /\ pc[p] = "awaiting"
    /\ UNCHANGED <<wname, context, results>>
    /\ rets' = [rets EXCEPT ![p] =
                   Append(@, [ok |-> FALSE, value |-> VInt(0), err |-> err])]
    /\ Advance(p, workflow[p], Len(calls[p]) + 1, context[p], RunResults(results, p))

ToolRaisesMutRetry(p, err) ==
    /\ pc[p] = "awaiting"
    /\ rets' = [rets EXCEPT ![p] =
                   Append(@, [ok |-> FALSE, value |-> VInt(0), err |-> err])]
    /\ IF Len(calls[p]) <= Len(workflow[p])
       THEN /\ calls' = [calls EXCEPT ![p] = Append(@, @[Len(@)])]
            /\ UNCHANGED <<pc, error, response>>
       ELSE /\ pc' = [pc EXCEPT ![p] = "failed"]
            /\ error' = [error EXCEPT ![p] = err]
            /\ response' = [response EXCEPT ![p] = Raised(err)]
            /\ UNCHANGED calls
    /\ UNCHANGED <<workflows, wname, context, workflow, results>>

\* line 55: execute_tool raised `err`; nothing catches it
ToolRaises(p, err) ==
    /\ pc[p] = "awaiting"
    /\ pc' = [pc EXCEPT ![p] = "failed"]
    /\ error' = [error EXCEPT ![p] = err]
    /\ response' = [response EXCEPT ![p] = Raised(err)]
    /\ rets' = [rets EXCEPT ![p] =
                   Append(@, [ok |-> FALSE, value |-> VInt(0), err |-> err])]
    /\ UNCHANGED <<workflows, wname, context, workflow, results, calls>>

\* line 127: orchestrator.workflows[arguments["name"]] = arguments["steps"]
StoreMutExtend(registry, name, steps) ==
    IF name \in DOMAIN registry
    THEN Put(registry, name, registry[name] \o steps)
    ELSE Put(registry, name, steps)

StoreMutReplaceAll(registry, name, steps) == [x \in {name} |-> steps]

Store(registry, name, steps) == Put(registry, name, steps)

\* handle_call_tool, name == "create_custom_workflow" (lines 126-129)
CreateCustomWorkflow(name, steps) ==
    /\ workflows' = Store(workflows, name, steps)
    /\ UNCHANGED <<pc, wname, context, workflow, results, calls, rets, error, response>>

Next ==
    \/ \E p \in SeqProcs, name \in RunNames, ctx \in Contexts :
            ExecuteWorkflow(p, name, ctx)
    \/ \E p \in SeqProcs, value \in ReturnValues : ToolReturns(p, value)
    \/ \E p \in SeqProcs, err \in ToolErrors : ToolRaises(p, err)
    \/ \E name \in RegisterNames, steps \in StepLists : CreateCustomWorkflow(name, steps)

Spec == Init /\ [][Next]_vars

\* Two requests in flight at once, interleaved at their awaits.  The custom
\* workflows registered here are the lists of MaxSteps steps that repeat a tool.
ConcStepLists == RepeatedToolLists(MaxSteps)

ConcRunNames == {"custom", "research_assistant"}

\* the contexts of the concurrent requests: those that hold no string
ConcContexts == {ctx \in Contexts : \A k \in DOMAIN ctx : ctx[k].kind # "str"}

NextConc ==
    \/ \E p \in Procs, name \in ConcRunNames, ctx \in ConcContexts :
            ExecuteWorkflow(p, name, ctx)
    \/ \E p \in Procs, value \in ReturnValues : ToolReturns(p, value)
    \/ \E p \in Procs, err \in ToolErrors : ToolRaises(p, err)
    \/ \E name \in RegisterNames, steps \in ConcStepLists : CreateCustomWorkflow(name, steps)

SpecConc == Init /\ [][NextConc]_vars

\* One request at a time whose callback invocations all come to an end: the
\* awaited execute_tool (line 55) returns or raises, and the event loop then
\* resumes the run.
LiveContexts == {EmptyMap}

LiveReturnValues == {VInt(42)}

CallbackOutcome(p) ==
    \/ \E value \in LiveReturnValues : ToolReturns(p, value)
    \/ \E err \in ToolErrors : ToolRaises(p, err)

NextLive ==
    \/ \E p \in SeqProcs, name \in RunNames, ctx \in LiveContexts :
            ExecuteWorkflow(p, name, ctx)
    \/ \E p \in SeqProcs : CallbackOutcome(p)
    \/ \E name \in RegisterNames, steps \in StepLists : CreateCustomWorkflow(name, steps)

SpecLive ==
    Init /\ [][NextLive]_vars /\ \A p \in SeqProcs : WF_vars(CallbackOutcome(p))

\* Requests for the built-in workflows only, with the contexts their
\* placeholders name: none, a query, a query and arxiv_results.
BuiltinNames == {"morning_briefing", "deploy_checklist", "research_assistant"}

BuiltinContexts ==
    { EmptyMap,
      [k \in {<<"query">>} |-> VStr(<<"rust">>)],
      [k \in {<<"query">>, <<"arxiv_results">>} |-> VStr(<<"rust">>)] }

BuiltinReturnValues == {VInt(42), VList(<<"paper">>)}

NextBuiltin ==
    \/ \E p \in SeqProcs, name \in BuiltinNames, ctx \in BuiltinContexts :
            ExecuteWorkflow(p, name, ctx)
    \/ \E p \in SeqProcs, value \in BuiltinReturnValues : ToolReturns(p, value)
    \/ \E p \in SeqProcs, err \in ToolErrors : ToolRaises(p, err)

SpecBuiltin == Init /\ [][NextBuiltin]_vars

\* Requests that register under two names and run by name: the built-ins,
\* the two custom names and a name nothing registers.
RegistryNames == {"custom", "nightly"}

RegistryStepLists == {<<>>, <<Step(<<"A">>, CustomParams)>>}

RegistryRunNames == {"custom", "nightly", "research_assistant", "weekly"}

NextRegistry ==
    \/ \E p \in SeqProcs, name \in RegistryRunNames, ctx \in LiveContexts :
            ExecuteWorkflow(p, name, ctx)
    \/ \E p \in SeqProcs, value \in LiveReturnValues : ToolReturns(p, value)
    \/ \E p \in SeqProcs, err \in ToolErrors : ToolRaises(p, err)
    \/ \E name \in RegistryNames, steps \in RegistryStepLists :
            CreateCustomWorkflow(name, steps)

SpecRegistry == Init /\ [][NextRegistry]_vars

---------------------------------------------------------------------------
(* Vocabulary of the properties *)

AllRunNames == RunNames \cup ConcRunNames

\* a string of the form "{" ... "}" and what stands between its braces
Braced(v) ==
    /\ v.kind = "str"
    /\ Len(v.s) >= 2
    /\ v.s[1] = "{"
    /\ v.s[Len(v.s)] = "}"

Inner(v) == SubSeq(v.s, 2, Len(v.s) - 1)

\* a string of the exact form {identifier}: one identifier between the braces
ExactForm(v) ==
    /\ Braced(v)
    /\ Len(Inner(v)) = 1
    /\ Inner(v)[1] \notin {"{", "}", " and "}

WellFormed(wf) == \A i \in 1..Len(wf) : wf[i].hasParams /\ wf[i].hasTool

AllReturned(outs) == \A i \in 1..Len(outs) : outs[i].ok

\* the steps before step i that invoke `tool`
Earlier(wf, i, tool) == {j \in 1..(i - 1) : wf[j].hasTool /\ wf[j].tool = tool}

Latest(S) == CHOOSE j \in S : \A k \in S : k <= j

\* the calls made so far are the leading steps of the run's workflow, in order
CallsFollowWorkflow(p) ==
    /\ Len(calls[p]) <= Len(workflow[p])
    /\ \A i \in 1..Len(calls[p]) :
          /\ workflow[p][i].hasTool
          /\ calls[p][i].tool = workflow[p][i].tool

\* the parameter names of step i of the workflow that request p runs
ParamNamesAt(p, i) ==
    IF i <= Len(workflow[p]) /\ workflow[p][i].hasParams
    THEN DOMAIN workflow[p][i].params
    ELSE {}

\* every (request, step, parameter name) for which the callback was invoked
Passed ==
    UNION {UNION {{<<p, i, key>> : key \in ParamNamesAt(p, i)} : i \in 1..Len(calls[p])}
              : p \in Procs}

\* the parameter of step i under `key` is a placeholder that nothing resolves
Unresolved(p, i, key) ==
    LET v == workflow[p][i].params[key]
    IN  /\ Braced(v)
        /\ Inner(v) \notin DOMAIN context[p]
        /\ Earlier(workflow[p], i, Inner(v)) = {}

\* the resolution of section 4.1, against one run's own Context and ResultSet
OwnParams(step_params, ctx, res) ==
    LET found(v) == Inner(v) \in (DOMAIN ctx) \cup (DOMAIN res)
    IN  [key \in {k \in DOMAIN step_params : Braced(step_params[k]) => found(step_params[k])} |->
            LET v == step_params[key]
            IN  IF ~Braced(v) THEN v
                ELSE IF Inner(v) \in DOMAIN ctx THEN ctx[Inner(v)]
                ELSE res[Inner(v)]]

\* the calls and the ResultSet of a run of `wf` with context `ctx` that has
\* received the callback outcomes `outs`, executed with nothing else running
RECURSIVE RunAlone(_, _, _, _, _, _)
RunAlone(wf, ctx, outs, i, res, cs) ==
    IF i > Len(wf) \/ ~wf[i].hasParams \/ ~wf[i].hasTool
    THEN [calls |-> cs, results |-> res]
    ELSE LET call == [tool |-> wf[i].tool, params |-> OwnParams(wf[i].params, ctx, res)]
         IN  IF i > Len(outs) \/ ~outs[i].ok
             THEN [calls |-> Append(cs, call), results |-> res]
             ELSE RunAlone(wf, ctx, outs, i + 1,
                           Put(res, wf[i].tool, outs[i].value), Append(cs, call))

---------------------------------------------------------------------------
(* C1: a run of a name that is not in the registry fails with the          *)
(* unknown-workflow error naming that workflow, and the callback is        *)
(* invoked zero times during that call.                                    *)

C1_UnknownWorkflowFailsBeforeAnyCall ==
    /\ [][\A p \in Procs, name \in AllRunNames, ctx \in Contexts :
            (ExecuteWorkflow(p, name, ctx) /\ name \notin DOMAIN workflows)
                => /\ pc'[p] = "failed"
                   /\ error'[p] = [type |-> "ValueError",
                                   text |-> <<"Unknown workflow: ", name>>]
                   /\ response'[p].kind = "error"
                   /\ response'[p].error = error'[p]
                   /\ calls'[p] = <<>>]_vars
    /\ [](\A p \in Procs :
            (pc[p] = "failed" /\ error[p].type = "ValueError")
                => calls[p] = <<>> /\ rets[p] = <<>>)

C1_Witness ==
    \E p \in Procs :
        /\ pc[p] = "failed"
        /\ wname[p] = "nightly"
        /\ error[p] = [type |-> "ValueError", text |-> <<"Unknown workflow: ", "nightly">>]
        /\ "custom" \in DOMAIN workflows

(* C2: when the callback fails at step k, the run fails with that same     *)
(* failure, no later step is invoked, the failing step is not retried and  *)
(* no ResultSet is returned.                                               *)

C2_CallbackFailureAbortsRun ==
    \A p \in Procs : \A k \in 1..Len(rets[p]) :
        ~rets[p][k].ok =>
            /\ k = Len(rets[p])
            /\ Len(calls[p]) = k
            /\ CallsFollowWorkflow(p)
            /\ pc[p] = "failed"
            /\ error[p] = rets[p][k].err
            /\ response[p].kind = "error"
            /\ response[p].error = rets[p][k].err
            /\ response[p].result = EmptyMap

C2_Witness ==
    \E p \in Procs :
        /\ Len(rets[p]) >= 2
        /\ ~rets[p][Len(rets[p])].ok
        /\ Len(rets[p]) < Len(workflow[p])
        /\ results[p] # EmptyMap
        /\ pc[p] = "failed"

(* C3: a run of a registered N-step workflow in which every callback       *)
(* invocation returns invokes the callback exactly N times, once per step, *)
(* with the steps' tool names in registration order.                       *)

C3_OneCallPerStepInOrder ==
    \A p \in Procs :
        /\ pc[p] \in {"awaiting", "returned"} => CallsFollowWorkflow(p)
        /\ pc[p] = "awaiting" => Len(calls[p]) = Len(rets[p]) + 1
        /\ pc[p] = "returned" =>
              /\ Len(calls[p]) = Len(workflow[p])
              /\ Len(rets[p]) = Len(workflow[p])
        /\ (pc[p] = "failed" /\ AllReturned(rets[p]) /\ WellFormed(workflow[p]))
              => error[p].type = "ValueError"

C3_Witness ==
    \E p \in Procs :
        /\ pc[p] = "returned"
        /\ Len(workflow[p]) = 2
        /\ workflow[p][1].tool # workflow[p][2].tool
        /\ [i \in 1..2 |-> calls[p][i].tool] = <<<<"B">>, <<"A">>>>

(* C4: a placeholder "{id}" resolves to Context[id] whenever id is a key   *)
(* of the Context, also when id is a key of the ResultSet.                 *)

C4_ContextTakesPrecedence ==
    \A t \in Passed :
        LET p == t[1]
            i == t[2]
            key == t[3]
            v == workflow[p][i].params[key]
        IN  (Braced(v) /\ Inner(v) \in DOMAIN context[p]) =>
                /\ key \in DOMAIN calls[p][i].params
                /\ calls[p][i].params[key] = context[p][Inner(v)]

C4_Witness ==
    \E t \in Passed :
        LET p == t[1]
            i == t[2]
            v == workflow[p][i].params[t[3]]
        IN  /\ Braced(v)
            /\ Inner(v) \in DOMAIN context[p]
            /\ Earlier(workflow[p], i, Inner(v)) # {}
            /\ \A j \in Earlier(workflow[p], i, Inner(v)) :
                    rets[p][j].value # context[p][Inner(v)]
            /\ calls[p][i].params[t[3]] = context[p][Inner(v)]

(* C5: a placeholder "{T}" with T not in the Context, T the tool of a step *)
(* completed earlier in the run, resolves to the value the callback most   *)
(* recently returned for T in this run.                                    *)

C5_EarlierResultIsThreaded ==
    \A t \in Passed :
        LET p == t[1]
            i == t[2]
            key == t[3]
            v == workflow[p][i].params[key]
            before == Earlier(workflow[p], i, Inner(v))
        IN  (Braced(v) /\ Inner(v) \notin DOMAIN context[p] /\ before # {}) =>
                /\ key \in DOMAIN calls[p][i].params
                /\ calls[p][i].params[key] = rets[p][Latest(before)].value

C5_Witness ==
    \E t \in Passed :
        LET p == t[1]
            i == t[2]
            v == workflow[p][i].params[t[3]]
            before == Earlier(workflow[p], i, Inner(v))
        IN  /\ Braced(v)
            /\ Inner(v) \notin DOMAIN context[p]
            /\ Cardinality(before) = 2
            /\ \E j \in before : rets[p][j].value # rets[p][Latest(before)].value
            /\ calls[p][i].params[t[3]] = rets[p][Latest(before)].value

(* C6: a placeholder whose identifier is a key of neither the Context nor  *)
(* the ResultSet is dropped: the callback's params have no entry for that  *)
(* name, the run does not fail because of it, and the step's other         *)
(* parameters are still passed.                                            *)

C6_UnresolvedPlaceholderIsDropped ==
    /\ \A t \in Passed :
          LET p == t[1]
              i == t[2]
          IN  DOMAIN calls[p][i].params =
                  {key \in DOMAIN workflow[p][i].params : ~Unresolved(p, i, key)}
    /\ \A p \in Procs : \A i \in 1..Len(workflow[p]) :
          ( /\ WellFormed(workflow[p])
            /\ \E key \in DOMAIN workflow[p][i].params : Unresolved(p, i, key)
            /\ Len(rets[p]) >= i - 1
            /\ \A j \in 1..(i - 1) : rets[p][j].ok )
          => /\ Len(calls[p]) >= i
             /\ (pc[p] = "failed" => (Len(rets[p]) >= i /\ ~AllReturned(rets[p])))

C6_Witness ==
    \E t \in Passed :
        LET p == t[1]
            i == t[2]
        IN  /\ Unresolved(p, i, t[3])
            /\ t[3] \notin DOMAIN calls[p][i].params
            /\ DOMAIN calls[p][i].params # {}
            /\ pc[p] = "returned"

(* C7: a parameter value that is not a string, or is a string that does    *)
(* not both start with "{" and end with "}", is passed to the callback     *)
(* unchanged under the same name, whatever Context and ResultSet hold.     *)

C7_LiteralIsPassedUnchanged ==
    \A t \in Passed :
        LET p == t[1]
            i == t[2]
            key == t[3]
            v == workflow[p][i].params[key]
        IN  ~Braced(v) =>
                /\ key \in DOMAIN calls[p][i].params
                /\ calls[p][i].params[key] = v

C7_Witness ==
    \E p \in Procs : \E i \in 1..Len(calls[p]) :
        /\ <<p, i, "y">> \in Passed
        /\ <<p, i, "n">> \in Passed
        /\ workflow[p][i].params["y"] = VStr(<<"{", "A">>)
        /\ calls[p][i].params["y"] = VStr(<<"{", "A">>)
        /\ calls[p][i].params["n"] = VInt(1)
        /\ <<"A">> \in DOMAIN context[p]
        /\ <<"A">> \in DOMAIN results[p]
        /\ i >= 2

(* C8: when a workflow invokes the same tool in two or more steps and the  *)
(* run completes, the returned ResultSet has one entry for that tool,      *)
(* holding the return value of its last invocation.                        *)

C8_LastInvocationWins ==
    \A p \in Procs :
        pc[p] = "returned" =>
            /\ response[p].kind = "result"
            /\ DOMAIN response[p].result =
                   {workflow[p][i].tool : i \in 1..Len(workflow[p])}
            /\ \A i \in 1..Len(workflow[p]) :
                  response[p].result[workflow[p][i].tool] =
                      rets[p][Latest(Earlier(workflow[p], Len(workflow[p]) + 1,
                                             workflow[p][i].tool))].value

C8_Witness ==
    \E p \in Procs :
        /\ pc[p] = "returned"
        /\ \E i, j \in 1..Len(workflow[p]) :
              /\ i < j
              /\ workflow[p][i].tool = workflow[p][j].tool
              /\ Earlier(workflow[p], Len(workflow[p]) + 1, workflow[p][i].tool) = {i, j}
              /\ rets[p][i].value # rets[p][j].value
              /\ response[p].result[workflow[p][i].tool] = rets[p][j].value

(* C9: register never fails and validates nothing: afterwards the registry *)
(* maps the name to exactly the given steps, every other entry is          *)
(* unchanged, and a run of the name started afterwards executes only the   *)
(* new step sequence.                                                      *)

C9_RegisterReplaces ==
    /\ [](\A name \in RegisterNames, steps \in StepLists :
            ENABLED CreateCustomWorkflow(name, steps))
    /\ [][\A name \in RegisterNames, steps \in StepLists :
            CreateCustomWorkflow(name, steps) =>
                /\ DOMAIN workflows' = (DOMAIN workflows) \cup {name}
                /\ workflows'[name] = steps
                /\ \A other \in (DOMAIN workflows) \ {name} :
                      workflows'[other] = workflows[other]]_vars
    /\ [][\A p \in Procs, name \in AllRunNames, ctx \in Contexts :
            (ExecuteWorkflow(p, name, ctx) /\ name \in DOMAIN workflows)
                => workflow'[p] = workflows[name]]_vars
    /\ [](\A p \in Procs : pc[p] \in {"awaiting", "returned"} => CallsFollowWorkflow(p))

C9_Witness ==
    \E p \in Procs :
        /\ wname[p] = "custom"
        /\ pc[p] = "returned"
        /\ workflow[p] # workflows["custom"]
        /\ Len(workflow[p]) >= 2
        /\ Len(workflows["custom"]) >= 1
        /\ Len(calls[p]) = Len(workflow[p])

(* C10: concurrent runs are independent: each run's resolved parameters    *)
(* and returned ResultSet are what that run would have produced alone; a   *)
(* placeholder of one run never resolves to a result of the other.         *)

C10_ConcurrentRunsAreIndependent ==
    \A p \in Procs :
        LET alone == RunAlone(workflow[p], context[p], rets[p], 1, EmptyMap, <<>>)
        IN  /\ calls[p] = alone.calls
            /\ results[p] = alone.results
            /\ pc[p] = "returned" => response[p].result = alone.results

C10_Witness ==
    /\ \A p \in Procs :
          /\ pc[p] = "awaiting"
          /\ wname[p] = "custom"
          /\ context[p] = EmptyMap
          /\ Len(calls[p]) = 2
          /\ calls[p][2].params["x"] = rets[p][1].value
    /\ rets[1][1].value # rets[2][1].value
    /\ workflow[1] # workflow[2]

(* C11: a run is read-only on its inputs: whether it returns or fails, the *)
(* registry (its names and every stored step sequence, placeholder strings *)
(* included) and the caller's Context are the same after the call as       *)
(* before it; only register changes the registry.                          *)

C11_RunIsReadOnly ==
    /\ [][\A p \in Procs :
            (pc'[p] # pc[p] \/ rets'[p] # rets[p] \/ calls'[p] # calls[p])
                => workflows' = workflows]_vars
    /\ [][\A p \in Procs : pc[p] = "awaiting" => context'[p] = context[p]]_vars
    /\ [][\A p \in Procs, name \in AllRunNames, ctx \in Contexts :
            ExecuteWorkflow(p, name, ctx)
                => (context'[p] = ctx /\ workflows' = workflows)]_vars
    /\ [][workflows' # workflows =>
            /\ UNCHANGED <<pc, wname, context, workflow, results, calls, rets, error, response>>
            /\ \E name \in RegisterNames :
                  \A other \in (DOMAIN workflows) \ {name} :
                      other \in DOMAIN workflows' /\ workflows'[other] = workflows[other]]_vars

C11_Witness ==
    \E p \in Procs :
        /\ pc[p] = "returned"
        /\ wname[p] = "custom"
        /\ Len(workflow[p]) >= 2
        /\ workflows["custom"] = workflow[p]
        /\ workflows["custom"][2].params["x"] = VStr(<<"{", "A", "}">>)
        /\ calls[p][2].params["x"] # VStr(<<"{", "A", "}">>)
        /\ context[p] # EmptyMap

(* C12: a run has exactly two failure kinds, the unknown-workflow error and *)
(* a failure raised by the callback: for every workflow that register      *)
(* accepted, malformed step shapes included, it raises no other error.     *)

C12_OnlyTwoFailureKinds ==
    \A p \in Procs :
        pc[p] = "failed" =>
            \/ error[p] = [type |-> "ValueError",
                           text |-> <<"Unknown workflow: ", wname[p]>>]
            \/ /\ rets[p] # <<>>
               /\ ~rets[p][Len(rets[p])].ok
               /\ error[p] = rets[p][Len(rets[p])].err

(* C13: the ResultSet a successful run returns is built only from that     *)
(* run: its keys are exactly the tool names of the executed workflow's     *)
(* steps, each value is what the callback returned in this run, and it     *)
(* holds no entry left over from an earlier run.                           *)

C13_ResultSetIsBuiltFromThisRun ==
    \A p \in Procs :
        /\ pc[p] \in {"awaiting", "returned"} =>
              /\ DOMAIN results[p] = {workflow[p][j].tool : j \in 1..Len(rets[p])}
              /\ \A tool \in DOMAIN results[p] :
                    \E j \in 1..Len(rets[p]) :
                        /\ workflow[p][j].tool = tool
                        /\ rets[p][j].ok
                        /\ rets[p][j].value = results[p][tool]
        /\ pc[p] = "returned" =>
              /\ response[p].result = results[p]
              /\ DOMAIN response[p].result =
                     {workflow[p][j].tool : j \in 1..Len(workflow[p])}

C13_Witness ==
    \E p \in Procs :
        /\ pc[p] = "returned"
        /\ wname[p] = "custom"
        /\ Len(workflow[p]) = 2
        /\ DOMAIN response[p].result = {<<"B">>}
        /\ response[p].result[<<"B">>] = rets[p][2].value
        /\ rets[p][1].value # rets[p][2].value

(* C14: within one run steps never overlap: a run has at most one          *)
(* outstanding callback invocation, and the invocation of step i+1 is      *)
(* made only after the invocation of step i returned and its result was    *)
(* recorded in the ResultSet, which the resolution of step i+1 then sees.  *)

C14_StepsNeverOverlap ==
    \A p \in Procs :
        /\ Len(calls[p]) - Len(rets[p]) \in {0, 1}
        /\ pc[p] = "awaiting" <=> Len(calls[p]) = Len(rets[p]) + 1
        /\ \A i \in 1..Len(rets[p]) :
              i < Len(calls[p]) =>
                  /\ rets[p][i].ok
                  /\ calls[p][i].tool \in DOMAIN results[p]
                  /\ \A key \in DOMAIN workflow[p][i + 1].params :
                        LET value == workflow[p][i + 1].params[key]
                        IN  (/\ Braced(value)
                             /\ Inner(value) = calls[p][i].tool
                             /\ Inner(value) \notin DOMAIN context[p])
                                => /\ key \in DOMAIN calls[p][i + 1].params
                                   /\ calls[p][i + 1].params[key] = rets[p][i].value
        /\ pc[p] = "awaiting" /\ rets[p] # <<>> =>
              results[p][calls[p][Len(rets[p])].tool] = rets[p][Len(rets[p])].value

C14_Witness ==
    \E p \in Procs :
        /\ pc[p] = "awaiting"
        /\ Len(calls[p]) = 2
        /\ Len(rets[p]) = 1
        /\ context[p] = EmptyMap
        /\ calls[p][1].tool = <<"B">>
        /\ "u" \in DOMAIN calls[p][2].params
        /\ calls[p][2].params["u"] = rets[p][1].value
        /\ results[p] = [k \in {<<"B">>} |-> rets[p][1].value]

(* C15 as stated: only a string of the exact form {identifier} is a        *)
(* placeholder; every other string value, "{}" and "{a} and {b}" included, *)
(* is a literal and is passed to the callback verbatim.                    *)

C15_OnlyExactFormIsPlaceholder ==
    \A t \in Passed :
        LET p == t[1]
            i == t[2]
            key == t[3]
            v == workflow[p][i].params[key]
        IN  (v.kind = "str" /\ ~ExactForm(v)) =>
                /\ key \in DOMAIN calls[p][i].params
                /\ calls[p][i].params[key] = v

(* C15 as amended: a string value is a placeholder exactly when it starts  *)
(* with "{" and ends with "}", and its identifier is everything between    *)
(* the first and the last character; so "{}" and "{a} and {b}" are         *)
(* placeholders, resolved from the Context, else from the ResultSet, else  *)
(* dropped.  Every other string is passed to the callback verbatim.        *)

C15_BracedStringIsPlaceholder ==
    \A t \in Passed :
        LET p == t[1]
            i == t[2]
            key == t[3]
            v == workflow[p][i].params[key]
            before == Earlier(workflow[p], i, Inner(v))
            given == calls[p][i].params
        IN  v.kind = "str" =>
                IF ~Braced(v) THEN key \in DOMAIN given /\ given[key] = v
                ELSE IF Inner(v) \in DOMAIN context[p]
                     THEN key \in DOMAIN given /\ given[key] = context[p][Inner(v)]
                ELSE IF before # {}
                     THEN key \in DOMAIN given /\ given[key] = rets[p][Latest(before)].value
                ELSE key \notin DOMAIN given

C15_Witness ==
    \E p \in Procs : \E i \in 1..Len(calls[p]) :
        /\ i >= 2
        /\ <<p, i, "e">> \in Passed
        /\ <<p, i, "m">> \in Passed
        /\ workflow[p][i].params["e"] = VStr(<<"{", "}">>)
        /\ workflow[p][i].params["m"] = VStr(<<"{", "A", "}", " and ", "{", "B", "}">>)
        /\ "e" \notin DOMAIN calls[p][i].params
        /\ "m" \notin DOMAIN calls[p][i].params
        /\ "y" \in DOMAIN calls[p][i].params
        /\ "x" \in DOMAIN calls[p][i].params

(* C16: resolution is single-pass: when a placeholder resolves, from the   *)
(* Context or from the ResultSet, to a value that is itself a string of    *)
(* the placeholder shape such as "{y}", that string is what the callback   *)
(* receives; it is not looked up again, even when y is a key of the        *)
(* Context or of the ResultSet.                                            *)

C16_ResolutionIsSinglePass ==
    \A t \in Passed :
        LET p == t[1]
            i == t[2]
            key == t[3]
            v == workflow[p][i].params[key]
            before == Earlier(workflow[p], i, Inner(v))
            once == IF Inner(v) \in DOMAIN context[p]
                    THEN context[p][Inner(v)]
                    ELSE rets[p][Latest(before)].value
        IN  ( /\ Braced(v)
              /\ (Inner(v) \in DOMAIN context[p] \/ before # {})
              /\ Braced(once) )
            => /\ key \in DOMAIN calls[p][i].params
               /\ calls[p][i].params[key] = once

C16_Witness ==
    \E p \in Procs :
        /\ wname[p] = "custom"
        /\ Len(calls[p]) >= 2
        /\ workflow[p][1].tool = <<"B">>
        /\ workflow[p][2].params["u"] = VStr(<<"{", "B", "}">>)
        /\ workflow[p][2].params["x"] = VStr(<<"{", "A", "}">>)
        /\ context[p] = [k \in {<<"A">>} |-> VStr(<<"{", "B", "}">>)]
        /\ rets[p][1].value = VStr(<<"{", "A", "}">>)
        /\ calls[p][2].params["u"] = VStr(<<"{", "A", "}">>)
        /\ calls[p][2].params["x"] = VStr(<<"{", "B", "}">>)

(* C17: a run is a linear, loop-free sequence of stages: when every        *)
(* callback invocation eventually returns or fails, a run of an N-step     *)
(* workflow eventually completes, with a ResultSet or a failure, after at  *)
(* most N callback invocations; and a run suspended in a callback neither  *)
(* completes nor starts a later step until that invocation has ended.      *)

C17_RunIsLinearAndCompletes ==
    /\ \A p \in SeqProcs : pc[p] = "awaiting" ~> pc[p] \in {"returned", "failed"}
    /\ [](\A p \in SeqProcs :
              /\ Len(calls[p]) <= Len(workflow[p])
              /\ \A i \in 1..Len(calls[p]) : calls[p][i].tool = workflow[p][i].tool)
    /\ [][\A p \in SeqProcs :
              ( /\ pc[p] = "awaiting"
                /\ \/ pc'[p] # pc[p]
                   \/ calls'[p] # calls[p]
                   \/ response'[p] # response[p] )
              => /\ Len(rets'[p]) = Len(rets[p]) + 1
                 /\ Len(calls'[p]) <= Len(calls[p]) + 1]_vars

C17_Witness ==
    \E p \in SeqProcs :
        /\ pc[p] = "returned"
        /\ wname[p] = "custom"
        /\ Len(workflow[p]) = MaxSteps + 1
        /\ Len(calls[p]) = Len(workflow[p])
        /\ Len(rets[p]) = Len(calls[p])

(* C18: a run suspended in a callback when register replaces the           *)
(* definition of the workflow it executes is not affected: it goes on      *)
(* with exactly the step sequence registered when it started, invoking     *)
(* none of the new steps and skipping none of the old ones, while a run    *)
(* started after the register uses the new sequence.                       *)

C18_SuspendedRunKeepsItsSteps ==
    /\ [][\A p \in Procs : pc[p] = "awaiting" => workflow'[p] = workflow[p]]_vars
    /\ [](\A p \in Procs :
              /\ CallsFollowWorkflow(p)
              /\ pc[p] = "returned" => Len(calls[p]) = Len(workflow[p]))
    /\ [][\A p \in Procs, name \in RegisterNames, ctx \in Contexts :
              (ExecuteWorkflow(p, name, ctx) /\ name \in DOMAIN workflows)
                  => workflow'[p] = workflows[name]]_vars

C18_Witness ==
    \E p \in Procs :
        /\ pc[p] = "returned"
        /\ wname[p] = "custom"
        /\ Len(workflow[p]) = 2
        /\ Len(workflows["custom"]) = 2
        /\ WellFormed(workflows["custom"])
        /\ \A i \in 1..2 :
              /\ calls[p][i].tool = workflow[p][i].tool
              /\ calls[p][i].tool # workflows["custom"][i].tool

(* C19: in a run of the built-in research_assistant workflow whose         *)
(* Context holds only "query", search_arxiv receives the Context's query   *)
(* and limit 5, while "{arxiv_results}" and "{summaries}" name no tool of  *)
(* the workflow: summarize_papers and find_implementations are invoked     *)
(* without "papers", create_reading_list without "summaries", and no step  *)
(* receives the result of an earlier step.                                 *)

C19_ResearchAssistantThreadsNothing ==
    \A p \in Procs :
        (wname[p] = "research_assistant" /\ DOMAIN context[p] = {<<"query">>}) =>
            \A i \in 1..Len(calls[p]) :
                /\ calls[p][i].tool =
                       <<<<"search_arxiv">>, <<"summarize_papers">>,
                         <<"find_implementations">>, <<"create_reading_list">>>>[i]
                /\ i = 1 => calls[p][i].params =
                                [k \in {"query", "limit"} |->
                                    IF k = "query" THEN context[p][<<"query">>] ELSE VInt(5)]
                /\ i > 1 => DOMAIN calls[p][i].params = {}

C19_Witness ==
    \E p \in Procs :
        /\ pc[p] = "returned"
        /\ wname[p] = "research_assistant"
        /\ DOMAIN context[p] = {<<"query">>}
        /\ Len(calls[p]) = 4
        /\ rets[p][1].value = VList(<<"paper">>)
        /\ rets[p][2].value = VList(<<"paper">>)
        /\ calls[p][2].params = EmptyMap
        /\ calls[p][4].params = EmptyMap
        /\ DOMAIN response[p].result =
               {<<"search_arxiv">>, <<"summarize_papers">>,
                <<"find_implementations">>, <<"create_reading_list">>}

(* C20: the resolution of a step sees only the results recorded before    *)
(* that step: a placeholder naming a tool invoked only by the current or   *)
(* a later step, and absent from the Context, is omitted; a placeholder    *)
(* naming the current step's own tool, when an earlier step invoked that   *)
(* tool, resolves to the earlier invocation's result, and the ResultSet    *)
(* keeps that earlier result until the current invocation returns.         *)

C20_ResolutionSeesOnlyEarlierResults ==
    /\ \A t \in Passed :
          LET p == t[1]
              i == t[2]
              key == t[3]
              v == workflow[p][i].params[key]
              before == Earlier(workflow[p], i, Inner(v))
          IN  (Braced(v) /\ Inner(v) \notin DOMAIN context[p]) =>
                  /\ ( /\ before = {}
                       /\ \E j \in i..Len(workflow[p]) :
                             workflow[p][j].hasTool /\ workflow[p][j].tool = Inner(v) )
                     => key \notin DOMAIN calls[p][i].params
                  /\ (before # {} /\ Inner(v) = workflow[p][i].tool)
                     => /\ key \in DOMAIN calls[p][i].params
                        /\ calls[p][i].params[key] = rets[p][Latest(before)].value
    /\ \A p \in Procs :
          pc[p] = "awaiting" =>
              LET i == Len(calls[p])
                  tool == workflow[p][i].tool
                  before == Earlier(workflow[p], i, tool)
              IN  IF before = {} THEN tool \notin DOMAIN results[p]
                  ELSE results[p][tool] = rets[p][Latest(before)].value

C20_Witness ==
    \E p \in Procs :
        /\ pc[p] = "awaiting"
        /\ wname[p] = "custom"
        /\ context[p] = EmptyMap
        /\ Len(workflow[p]) = 3
        /\ Len(calls[p]) = 2
        /\ workflow[p][1].tool = <<"A">>
        /\ workflow[p][2].tool = <<"A">>
        /\ workflow[p][3].tool = <<"B">>
        /\ workflow[p][2].params["x"] = VStr(<<"{", "A", "}">>)
        /\ workflow[p][2].params["u"] = VStr(<<"{", "B", "}">>)
        /\ "x" \notin DOMAIN calls[p][1].params
        /\ "u" \notin DOMAIN calls[p][2].params
        /\ calls[p][2].params["x"] = rets[p][1].value
        /\ results[p][<<"A">>] = rets[p][1].value

(* C21: the registry's set of names only grows: it starts as the three     *)
(* built-in names, no operation removes a name, so every name ever         *)
(* registered and each built-in name stays present, and a run on such a    *)
(* name never fails with UnknownWorkflow.                                  *)

C21_RegistryNamesOnlyGrow ==
    /\ DOMAIN workflows = {"morning_briefing", "deploy_checklist", "research_assistant"}
    /\ [][DOMAIN workflows \subseteq DOMAIN workflows']_vars
    /\ []({"morning_briefing", "deploy_checklist", "research_assistant"}
              \subseteq DOMAIN workflows)
    /\ [][\A name \in RegistryNames, steps \in RegistryStepLists :
              CreateCustomWorkflow(name, steps) => name \in DOMAIN workflows']_vars
    /\ [][\A p \in SeqProcs, name \in RegistryRunNames, ctx \in LiveContexts :
              (ExecuteWorkflow(p, name, ctx) /\ name \in DOMAIN workflows)
                  => /\ error'[p].type # "ValueError"
                     /\ response'[p] # Raised(UnknownWorkflow(name))]_vars

C21_Witness ==
    \E p \in SeqProcs :
        /\ DOMAIN workflows =
               {"morning_briefing", "deploy_checklist", "research_assistant",
                "custom", "nightly"}
        /\ workflows["nightly"] = <<>>
        /\ workflows["custom"] # <<>>
        /\ wname[p] = "custom"
        /\ pc[p] = "returned"
        /\ Len(calls[p]) = 1

====
